---- MODULE Spec2Model ----
(***************************************************************************)
(* A model of the `waypoints` crate (src/src/lib.rs): one `Waypoints`      *)
(* value shared by a few threads.  `state` is the mutex-protected tuple    *)
(* (n, target_time), `cv` is the wait set of the condition variable, and   *)
(* every thread walks through `range` statement by statement.              *)
(***************************************************************************)
EXTENDS Integers, Sequences, FiniteSets, TLC

\* ------------------------------------------------------------------ bounds
NThreads == 2       \* worker threads sharing the Waypoints
MaxN == 2           \* waypoint numbers used as arguments are 0..MaxN
MaxClock == 2       \* the clock runs 0..MaxClock
MaxDt == 1          \* head_start durations are 1..MaxDt
MaxCalls == 2       \* calls of range/point in one behaviour of Spec
MaxSets == 1        \* calls of set/reset in one behaviour of Spec

\* usize::MAX (here of a 16-bit target) and a stand-in for the largest Instant
\* the platform can represent; the arguments of the specifications below stay
\* far from both
USIZE_MAX == 65535
INSTANT_MAX == 1073741823

VARIABLES
    state,      \* <<n, target_time>>: the value inside the Mutex
    holder,     \* the thread holding the Mutex, 0 when free
    poisoned,   \* TRUE once a thread panicked while holding the Mutex
    cv,         \* threads blocked in Condvar::wait, not yet notified
    clock,      \* Instant::now()
    th,         \* per thread: program counter, arguments and locals of range
    nsets,      \* number of set/reset calls made so far
    passed,     \* waypoint numbers some call evaluated with Ok (since the last set)
    owed,       \* now + dt of the latest state update that supplied a head_start
    scen,       \* the scenario a specification runs, chosen by its Init
    last,       \* the set call made last, while nothing has been called after it
    log         \* the results of the calls that returned, in the order of return

vars == <<state, holder, poisoned, cv, clock, th, nsets, passed, owed, scen, last, log>>

\* ------------------------------------------------------------- data types
\* Option<T>: None is the empty sequence, Some(x) the one-element sequence.
None == <<>>
Some(x) == <<x>>
IsSome(o) == Len(o) = 1
Unwrap(o) == o[1]

\* Result<(), usize>
Ok == [tag |-> "Ok", n |-> 0]
Err(n) == [tag |-> "Err", n |-> n]
Panic == [tag |-> "panic", n |-> 0]          \* unreachable! of line 154
Overflow == [tag |-> "overflow", n |-> 0]    \* a panic of line 159, 163 or 166
NoRes == [tag |-> "none", n |-> 0]

Threads == DOMAIN th

\* the number of calls of range/point made so far
RECURSIVE Sum(_, _)
Sum(f, S) == IF S = {} THEN 0
             ELSE LET x == CHOOSE y \in S : TRUE IN f[x] + Sum(f, S \ {x})
ncalls == Sum([t \in Threads |-> th[t].calls], Threads)
Max(a, b) == IF a >= b THEN a ELSE b

current == state[1]
earliest_next == state[2]

\* the locals of a thread that is not inside a call
Idle == [pc |-> "idle", l |-> 0, h |-> 0, head_start |-> None,
         now |-> 0, target_time_this |-> None, res |-> NoRes,
         dur |-> 0, wake |-> 0, due |-> None,
         parked |-> FALSE, inwin |-> FALSE, calls |-> 0]

\* ---------------------------------------------------- the code of `range`
\* (mutant) the wait goes on while the number equals l
wait_cond_le(n, l) == n <= l

\* (mutant) the wait ends one waypoint early
wait_cond_early(n, l) == n + 1 < l

\* line 147: the closure handed to wait_while; the wait goes on while it holds
wait_cond(n, l) == n < l

\* (mutant) the check forgets the upper end of the window
check_open(n, l, h) == IF l <= n THEN Ok ELSE Panic

\* (mutant) the error carries the number the call leaves behind
check_after(n, l, h) ==
    IF l <= n /\ n <= h THEN Ok
    ELSE IF n > h THEN Err(n + 1)
    ELSE Panic

\* lines 151-155: check the state
check(n, l, h) ==
    IF l <= n /\ n <= h THEN Ok
    ELSE IF n > h THEN Err(n)
    ELSE Panic    \* unreachable!("passed waypoint before schedule")

\* (mutant) the number starts again from 0
incr_restart(n) == {Some(0)}

\* (mutant) the number is left as it was
incr_none(n) == {Some(n)}

\* line 159: `*n += 1` on a usize: the outcomes the builds can produce, None
\* for a panic (an overflow panics in a debug build, wraps in a release build)
incr(n) == IF n = USIZE_MAX THEN {None, Some(0)} ELSE {Some(n + 1)}

\* Instant + Duration (lines 163, 166): None when the sum is not representable
instant_add(t, dt) == IF dt > INSTANT_MAX - t THEN None ELSE Some(t + dt)

\* (mutant) the head start always counts from now, whatever the old target time
target_time_fromnow(target_time, head_start, now) ==
    IF IsSome(head_start)
        THEN Some(Some(now + Unwrap(head_start)))
    ELSE IF IsSome(target_time) /\ now < Unwrap(target_time)
        THEN Some(target_time)
    ELSE Some(None)

\* (mutant) an expired target time is kept when no head start is given
target_time_keep(target_time, head_start, now) ==
    IF IsSome(target_time) /\ IsSome(head_start)
        THEN Some(Some(Max(now, Unwrap(target_time)) + Unwrap(head_start)))
    ELSE IF IsSome(target_time)
        THEN Some(target_time)
    ELSE IF IsSome(head_start)
        THEN Some(Some(now + Unwrap(head_start)))
    ELSE Some(None)

\* (mutant) a call without head start clears the target time it found
target_time_clear(target_time, head_start, now) ==
    IF IsSome(target_time) /\ IsSome(head_start)
        THEN Some(Some(Max(now, Unwrap(target_time)) + Unwrap(head_start)))
    ELSE IF IsSome(head_start)
        THEN Some(Some(now + Unwrap(head_start)))
    ELSE Some(None)

\* (mutant) the head start is added to the old target time, without the max
target_time_nomax(target_time, head_start, now) ==
    IF IsSome(target_time) /\ IsSome(head_start)
        THEN Some(Some(Unwrap(target_time) + Unwrap(head_start)))
    ELSE IF IsSome(target_time) /\ now < Unwrap(target_time)
        THEN Some(target_time)
    ELSE IF IsSome(target_time)
        THEN Some(None)
    ELSE IF IsSome(head_start)
        THEN Some(Some(now + Unwrap(head_start)))
    ELSE Some(None)

\* lines 162-168: the new target_time; None when the addition overflows
\* (the code panics there), Some(new value of target_time) otherwise
target_time_next(target_time, head_start, now) ==
    IF IsSome(target_time) /\ IsSome(head_start)
        THEN LET s == instant_add(Max(now, Unwrap(target_time)), Unwrap(head_start))
             IN  IF IsSome(s) THEN Some(s) ELSE None
    ELSE IF IsSome(target_time) /\ now < Unwrap(target_time)
        THEN Some(target_time)
    ELSE IF IsSome(target_time)
        THEN Some(None)
    ELSE IF IsSome(head_start)
        THEN LET s == instant_add(now, Unwrap(head_start))
             IN  IF IsSome(s) THEN Some(s) ELSE None
    ELSE Some(None)

\* (mutant) the caller never sleeps
sleep_for_none(target_time_this, now) == 0

\* lines 173-176: the time the caller sleeps for after dropping the lock
sleep_for(target_time_this, now) ==
    IF IsSome(target_time_this) /\ now < Unwrap(target_time_this)
        THEN Unwrap(target_time_this) - now
        ELSE 0

\* line 146: a thread calls range(l, h, head_start)
range(t, l, h, head_start) ==
    /\ th[t].pc = "idle"
    /\ th' = [th EXCEPT ![t] = [Idle EXCEPT
                !.pc = "wait_while", !.l = l, !.h = h, !.head_start = head_start,
                !.inwin = (scen.hist /\ l <= current /\ current <= h),
                !.calls = th[t].calls + 1]]
    /\ UNCHANGED <<state, holder, poisoned, cv, clock, nsets, passed, owed, scen, last, log>>

\* lines 137-139
point(t, n, head_start) == range(t, n, n, head_start)

\* Condvar::wait returns Err when it finds the Mutex poisoned, and
\* Condvar::wait_while (`while condition(guard) { guard = self.wait(guard)?; }`)
\* then returns that Err without testing the condition again; into_guard on
\* line 148 takes the guard out of it.
wait_gave_up(t) == th[t].pc = "wait" /\ poisoned

\* line 147: state_lck (lines 111-113) takes the Mutex, and into_guard (lines
\* 115-122) accepts a poisoned one; Condvar::wait_while then tests the
\* condition with the Mutex held and, when it holds, releases the Mutex and
\* blocks on the Condvar in one step (pc "wait").  A thread that left the
\* wait set takes the Mutex again and, the Mutex not being poisoned, tests
\* again.
wait_while(t) ==
    /\ th[t].pc \in {"wait_while", "wait"}
    /\ t \notin cv
    /\ holder = 0
    /\ ~wait_gave_up(t)
    /\ wait_cond(current, th[t].l)
    /\ cv' = cv \cup {t}
    /\ th' = [th EXCEPT ![t].pc = "wait", ![t].parked = scen.hist]
    /\ UNCHANGED <<state, holder, poisoned, clock, nsets, passed, owed, scen, last, log>>

\* a spurious wakeup of Condvar::wait: the thread leaves the wait set unnotified
spurious(t) ==
    /\ t \in cv
    /\ cv' = cv \ {t}
    /\ UNCHANGED <<state, holder, poisoned, clock, th, nsets, passed, owed, scen, last, log>>

\* lines 147-168: wait_while returns with the Mutex held once the condition
\* is false, or once a wait found the Mutex poisoned; check the state, update
\* the state.  The thread keeps the Mutex up to line 171.  A panic
\* (unreachable!, an overflow) unwinds through the guard, which poisons and
\* releases the Mutex.
update(t) ==
    /\ th[t].pc \in {"wait_while", "wait"}
    /\ t \notin cv
    /\ holder = 0
    /\ ~wait_cond(current, th[t].l) \/ wait_gave_up(t)
    /\ LET n == current
           target_time == earliest_next
           res == check(n, th[t].l, th[t].h)
           now == clock
           tt == target_time_next(target_time, th[t].head_start, now)
       IN  IF res = Panic
           THEN /\ th' = [th EXCEPT ![t].pc = "panicked", ![t].res = Panic]
                /\ poisoned' = TRUE
                /\ UNCHANGED <<state, holder, passed, owed>>
           ELSE \E o \in incr(n) :
                LET n1 == Unwrap(o) IN
                IF ~IsSome(o)
                THEN /\ th' = [th EXCEPT ![t].pc = "panicked", ![t].res = Overflow]
                     /\ poisoned' = TRUE
                     /\ UNCHANGED <<state, holder, passed, owed>>
                ELSE IF ~IsSome(tt)
                THEN /\ th' = [th EXCEPT ![t].pc = "panicked", ![t].res = Overflow,
                                         ![t].now = now]
                     /\ state' = <<n1, target_time>>
                     /\ poisoned' = TRUE
                     /\ UNCHANGED <<holder, passed, owed>>
                ELSE /\ state' = <<n1, Unwrap(tt)>>
                     /\ th' = [th EXCEPT ![t].pc = "drop", ![t].res = res,
                                         ![t].now = now,
                                         ![t].target_time_this = target_time,
                                         ![t].due = owed]
                     /\ passed' = IF res = Ok THEN passed \cup {n} ELSE passed
                     /\ owed' = IF IsSome(th[t].head_start)
                                THEN Some(now + Unwrap(th[t].head_start)) ELSE None
                     /\ holder' = t
                     /\ UNCHANGED poisoned
    /\ UNCHANGED <<cv, clock, nsets, scen, last, log>>

\* (mutant) the guard lives to the end of the function: the lock is kept
\* over the sleep
drop_late(t) ==
    /\ th[t].pc = "drop"
    /\ holder = t
    /\ LET d == sleep_for(th[t].target_time_this, th[t].now)
       IN  th' = [th EXCEPT ![t].pc = IF d > 0 THEN "sleep" ELSE "notify",
                            ![t].dur = d,
                            ![t].wake = IF d > 0 THEN clock + d ELSE 0]
    /\ holder' = IF sleep_for(th[t].target_time_this, th[t].now) > 0 THEN t ELSE 0
    /\ UNCHANGED <<state, poisoned, cv, clock, nsets, passed, owed, scen, last, log>>

\* lines 171-176: drop the lock, then sleep if the old target_time is ahead
drop(t) ==
    /\ th[t].pc = "drop"
    /\ holder = t
    /\ holder' = 0
    /\ LET d == sleep_for(th[t].target_time_this, th[t].now)
       IN  th' = [th EXCEPT ![t].pc = IF d > 0 THEN "sleep" ELSE "notify",
                            ![t].dur = d,
                            ![t].wake = IF d > 0 THEN clock + d ELSE 0]
    /\ UNCHANGED <<state, poisoned, cv, clock, nsets, passed, owed, scen, last, log>>

\* line 174: std::thread::sleep returns once at least the duration has passed
sleep(t) ==
    /\ th[t].pc = "sleep"
    /\ clock >= th[t].wake
    /\ th' = [th EXCEPT ![t].pc = "notify", ![t].wake = 0]
    /\ UNCHANGED <<state, holder, poisoned, cv, clock, nsets, passed, owed, scen, last, log>>

\* (mutant) the call returns without notifying
notify_none(t) ==
    /\ th[t].pc = "notify"
    /\ th' = [th EXCEPT ![t] = [Idle EXCEPT !.calls = th[t].calls]]
    /\ last' = None
    /\ log' = IF scen.hist THEN Append(log, th[t].res) ELSE log
    /\ UNCHANGED <<state, holder, poisoned, cv, clock, nsets, passed, owed, scen>>

\* (mutant) only a call that was checked Ok notifies
notify_ok(t) ==
    /\ th[t].pc = "notify"
    /\ cv' = IF th[t].res = Ok THEN {} ELSE cv
    /\ th' = [th EXCEPT ![t] = [Idle EXCEPT !.calls = th[t].calls]]
    /\ last' = None
    /\ log' = IF scen.hist THEN Append(log, th[t].res) ELSE log
    /\ UNCHANGED <<state, holder, poisoned, clock, nsets, passed, owed, scen>>

\* lines 178-180: notify_all empties the wait set; the call returns res
notify_all(t) ==
    /\ th[t].pc = "notify"
    /\ cv' = {}
    /\ th' = [th EXCEPT ![t] = [Idle EXCEPT !.calls = th[t].calls]]
    /\ last' = None
    /\ log' = IF scen.hist THEN Append(log, th[t].res) ELSE log
    /\ UNCHANGED <<state, holder, poisoned, clock, nsets, passed, owed, scen>>

\* (mutant) set wakes the threads blocked on the Condvar
set_by_wake(n, t, by) ==
    /\ holder = 0
    /\ state' = <<n, t>>
    /\ nsets' = nsets + 1
    /\ passed' = {}
    /\ owed' = None
    /\ last' = None
    /\ cv' = {}
    /\ UNCHANGED <<holder, poisoned, clock, th, scen, log>>

\* lines 131-133: set takes the Mutex, overwrites the tuple, releases the
\* Mutex; `by` is the method the caller used, kept in `last` together with
\* whether t is a time still ahead
set_by(n, t, by) ==
    /\ holder = 0
    /\ state' = <<n, t>>
    /\ nsets' = nsets + 1
    /\ passed' = {}
    /\ owed' = None
    /\ last' = IF scen.hist /\ \A u \in Threads : th[u].pc = "idle"
               THEN Some([by |-> by, n |-> n, t |-> t,
                          ahead |-> (IsSome(t) /\ clock < Unwrap(t))])
               ELSE None
    /\ UNCHANGED <<holder, poisoned, cv, clock, th, scen, log>>

set(n, t) == set_by(n, t, "set")

\* (mutant) reset leaves the target time alone
reset_number == set_by(0, earliest_next, "reset")

\* lines 125-127
reset == set_by(0, None, "reset")

\* time passes
Tick ==
    /\ clock < MaxClock
    /\ clock' = clock + 1
    /\ UNCHANGED <<state, holder, poisoned, cv, th, nsets, passed, owed, scen, last, log>>

\* ------------------------------------------------------ the specifications
Numbers == 0 .. MaxN
Windows == {w \in Numbers \X Numbers : w[1] <= w[2]}
Durations == {None} \cup {Some(d) : d \in 1 .. MaxDt}
Instants == {None} \cup {Some(i) : i \in 0 .. MaxClock + 1}

\* a Waypoints holding `st`, shared by the idle threads `who`; `sc` is the scenario
Gate(who, st, sc) ==
    /\ state = st
    /\ holder = 0
    /\ poisoned = FALSE
    /\ cv = {}
    /\ clock = 0
    /\ th = [t \in who |-> Idle]
    /\ nsets = 0
    /\ passed = {}
    /\ owed = None
    /\ scen = sc
    /\ last = None
    /\ log = <<>>

\* lines 99-104: Waypoints::new
new == <<0, None>>

Scenario(kind, hist) ==
    [kind |-> kind, hist |-> hist, plan |-> <<>>, l |-> 0, h |-> 0, c |-> 0, e |-> None]

\* any thread calls point, range, set or reset with any arguments
Next ==
    \/ /\ ncalls < MaxCalls
       /\ \E t \in Threads, w \in Windows, hs \in Durations : range(t, w[1], w[2], hs)
    \/ /\ ncalls < MaxCalls
       /\ \E t \in Threads, n \in Numbers, hs \in Durations : point(t, n, hs)
    \/ /\ nsets < MaxSets
       /\ \E n \in Numbers, i \in Instants : set(n, i)
    \/ /\ nsets < MaxSets
       /\ reset
    \/ \E t \in Threads : wait_while(t)
    \/ \E t \in Threads : spurious(t)
    \/ \E t \in Threads : update(t)
    \/ \E t \in Threads : drop(t)
    \/ \E t \in Threads : sleep(t)
    \/ \E t \in Threads : notify_all(t)
    \/ Tick

\* NThreads threads share a new Waypoints
Init == Gate(1 .. NThreads, new, Scenario("any", FALSE))
Spec == Init /\ [][Next]_vars

\* one thread makes all the calls, one after the other
InitSolo == Gate({1}, new, Scenario("solo", TRUE))
SpecSolo == InitSolo /\ [][Next]_vars

\* The threads call point and range with any windows, without head_start, and
\* nobody calls set or reset: target_time stays None, no thread reaches the
\* sleep of line 174 and time plays no part.
NextPlain ==
    \/ /\ ncalls < MaxCalls + 1
       /\ \E t \in Threads, w \in Windows : range(t, w[1], w[2], None)
    \/ /\ ncalls < MaxCalls + 1
       /\ \E t \in Threads, n \in Numbers : point(t, n, None)
    \/ \E t \in Threads : wait_while(t)
    \/ \E t \in Threads : spurious(t)
    \/ \E t \in Threads : update(t)
    \/ \E t \in Threads : drop(t)
    \/ \E t \in Threads : notify_all(t)

InitPlain == Gate(1 .. NThreads, new, Scenario("plain", FALSE))
SpecPlain == InitPlain /\ [][NextPlain]_vars

\* The threads pass the waypoints 0..MaxN+1 between them: plan[i] is the thread
\* that calls point(i, None), and every thread makes its calls in increasing
\* order of i.
Indices == 0 .. MaxN + 1
Owned(t) == {i \in Indices : scen.plan[i] = t}
Requested(i) == Cardinality({j \in Owned(scen.plan[i]) : j < i}) < th[scen.plan[i]].calls

pass(t) ==
    \E i \in Owned(t) :
        /\ ~Requested(i)
        /\ \A j \in Owned(t) : j < i => Requested(j)
        /\ point(t, i, None)

\* no call supplies a head_start and nothing sets a target time, so no
\* thread reaches the sleep of line 174 and time plays no part
NextSeq ==
    \/ \E t \in Threads : pass(t)
    \/ \E t \in Threads : wait_while(t)
    \/ \E t \in Threads : spurious(t)
    \/ \E t \in Threads : update(t)
    \/ \E t \in Threads : drop(t)
    \/ \E t \in Threads : notify_all(t)

InitSeq ==
    \E plan \in [Indices -> 1 .. NThreads] :
        Gate(1 .. NThreads, new, [Scenario("seq", TRUE) EXCEPT !.plan = plan])
SpecSeq == InitSeq /\ [][NextSeq]_vars

\* Every call is range(l, h, None) with the same window, on a Waypoints left
\* in the state (c, e) by an earlier set(c, e).
NextSame ==
    \/ /\ ncalls < MaxCalls + 1
       /\ \E t \in Threads : range(t, scen.l, scen.h, None)
    \/ \E t \in Threads : wait_while(t)
    \/ \E t \in Threads : spurious(t)
    \/ \E t \in Threads : update(t)
    \/ \E t \in Threads : drop(t)
    \/ \E t \in Threads : sleep(t)
    \/ \E t \in Threads : notify_all(t)
    \/ Tick

InitSame ==
    \E w \in Windows, c \in Numbers, e \in Instants :
        Gate(1 .. NThreads, <<c, e>>,
             [Scenario("same", TRUE) EXCEPT !.l = w[1], !.h = w[2], !.c = c, !.e = e])
SpecSame == InitSame /\ [][NextSame]_vars

\* The threads call point and range with any windows and head starts, nobody
\* calls set or reset, and the scheduler is fair: a thread that can take a
\* step of its call takes it in the end, and time goes on as long as a
\* sleeper waits for it.  Spurious wakeups may or may not happen.
Tock ==
    /\ clock < MaxClock \/ \E t \in Threads : th[t].pc = "sleep" /\ clock < th[t].wake
    /\ clock' = clock + 1
    /\ UNCHANGED <<state, holder, poisoned, cv, th, nsets, passed, owed, scen, last, log>>

step(t) == wait_while(t) \/ update(t) \/ drop(t) \/ sleep(t) \/ notify_all(t)

NextFair ==
    \/ /\ ncalls < MaxCalls + 1
       /\ \E t \in Threads, w \in Windows, hs \in Durations : range(t, w[1], w[2], hs)
    \/ \E t \in Threads : step(t)
    \/ \E t \in Threads : spurious(t)
    \/ Tock

InitFair == Gate(1 .. NThreads, new, Scenario("fair", FALSE))
SpecFair ==
    /\ InitFair /\ [][NextFair]_vars
    /\ \A t \in 1 .. NThreads : WF_vars(step(t))
    /\ WF_vars(Tock)

\* The arguments reach the ends of usize, Duration and Instant: any thread
\* calls point, range, set or reset with the numbers 0, 1 and usize::MAX, a
\* head_start of 1 or of the longest time an Instant can hold, and a target
\* time of 1 or the last Instant.
EdgeNumbers == {0, 1, USIZE_MAX}
EdgeWindows == {w \in EdgeNumbers \X EdgeNumbers : w[1] <= w[2]}
EdgeDurations == {None, Some(1), Some(INSTANT_MAX)}
EdgeInstants == {None, Some(1), Some(INSTANT_MAX)}

NextEdge ==
    \/ /\ ncalls < MaxCalls
       /\ \E t \in Threads, w \in EdgeWindows, hs \in EdgeDurations : range(t, w[1], w[2], hs)
    \/ /\ ncalls < MaxCalls
       /\ \E t \in Threads, n \in EdgeNumbers, hs \in EdgeDurations : point(t, n, hs)
    \/ /\ nsets < MaxSets
       /\ \E n \in EdgeNumbers, i \in EdgeInstants : set(n, i)
    \/ /\ nsets < MaxSets
       /\ reset
    \/ \E t \in Threads : wait_while(t)
    \/ \E t \in Threads : spurious(t)
    \/ \E t \in Threads : update(t)
    \/ \E t \in Threads : drop(t)
    \/ \E t \in Threads : sleep(t)
    \/ \E t \in Threads : notify_all(t)
    \/ Tick

InitEdge == Gate(1 .. NThreads, new, Scenario("edge", FALSE))
SpecEdge == InitEdge /\ [][NextEdge]_vars

\* ------------------------------------------------------------------ claims
After(t) == th[t].pc \in {"drop", "sleep", "notify"}
Waiting(t) == th[t].pc \in {"wait_while", "wait"}

\* C1: when the threads share out point(0, None) .. point(MaxN+1, None), each
\* thread calling in increasing order, no call fails or panics; a call
\* point(j) is past its check only when every point(i), i < j, has been
\* called, so what precedes the call of point(i) precedes what follows the
\* return of point(j); and as long as calls are outstanding some thread can
\* move without the help of a spurious wakeup, so every call returns.
C1_AllDone == Len(log) = Cardinality(Indices)
C1_CanMove ==
    \E t \in Threads :
        \/ th[t].pc = "idle" /\ \E i \in Owned(t) : ~Requested(i)
        \/ After(t)
        \/ Waiting(t) /\ t \notin cv /\ ~wait_cond(current, th[t].l)
C1_Sequence ==
    /\ \A t \in Threads :
          /\ th[t].pc # "panicked"
          /\ After(t) => /\ th[t].res = Ok
                          /\ \A i \in Indices : i < th[t].l => Requested(i)
    /\ \A k \in 1 .. Len(log) : log[k] = Ok
    /\ C1_AllDone \/ C1_CanMove

\* C1 witness: all the points were passed, by more than one thread
C1_Witness ==
    /\ C1_AllDone
    /\ \A t \in Threads : th[t].pc = "idle"
    /\ \A i \in Indices : i > 0 => scen.plan[i] # scen.plan[i - 1]

\* C2 (as claimed): a call whose check gave Err leaves the state as it found
\* it; the thread still holds the Mutex at "drop", so `state` is what its own
\* update left, the payload of Err is the n it found and target_time_this the
\* target_time it found.
C2_FailedCallKeepsState ==
    \A t \in Threads :
        (th[t].pc = "drop" /\ th[t].res.tag = "Err") =>
            /\ current = th[t].res.n
            /\ earliest_next = th[t].target_time_this

\* C4 (as claimed): without set/reset, point(N) is checked Ok only when every
\* number below N was checked Ok by some call.
C4_AllPriorPassed ==
    \A t \in Threads :
        (nsets = 0 /\ After(t) /\ th[t].l = th[t].h /\ th[t].res = Ok) =>
            \A i \in 0 .. th[t].l - 1 : i \in passed

\* C3: when point(n, None) is called twice (by two threads, or twice by one) on
\* a Waypoints whose number is n and nothing else is called, one of the two
\* results is Ok and the other is Err(n + 1).
C3_Duplicate ==
    (scen.l = scen.h /\ scen.c = scen.l /\ ncalls = 2 /\ Len(log) = 2) =>
        {log[1], log[2]} = {Ok, Err(scen.l + 1)}

\* C3 witness: both calls returned, the failing one first
C3_Witness ==
    /\ scen.l = scen.h /\ scen.c = scen.l /\ ncalls = 2 /\ Len(log) = 2
    /\ log[1].tag = "Err"

\* C5 (as claimed): every call range(l, h, None) made while l <= n <= h is
\* checked Ok and never blocks on the Condvar.
C5_AllReleased ==
    \A t \in Threads :
        (th[t].inwin /\ After(t)) => (th[t].res = Ok /\ ~th[t].parked)

\* C5 (amended): when the calls range(l, h, None) start from a number c with
\* l <= c <= h, no call ever blocks on the Condvar, and of the calls checked
\* so far exactly the first h - c + 1 got Ok (the others got Err).
C5_Checked == Len(log) + Cardinality({t \in Threads : After(t)})
C5_Oks ==
    Cardinality({k \in 1 .. Len(log) : log[k] = Ok})
        + Cardinality({t \in Threads : After(t) /\ th[t].res = Ok})
C5_ReleasedInTurn ==
    (scen.l <= scen.c /\ scen.c <= scen.h) =>
        /\ \A t \in Threads : ~th[t].parked /\ t \notin cv /\ th[t].pc # "panicked"
        /\ C5_Oks = IF C5_Checked <= scen.h - scen.c + 1
                     THEN C5_Checked ELSE scen.h - scen.c + 1

\* C5 witness: every thread is past its check at the same time, all with Ok
C5_Witness ==
    /\ scen.l <= scen.c /\ scen.c <= scen.h
    /\ \A t \in Threads : After(t) /\ th[t].inwin /\ th[t].res = Ok

\* C7 (as claimed): when set(n, Some(T)) was called at a time before T with
\* no call in flight and point(n, Some(dt2)) is the next call, that call
\* is checked Ok, is ready to return no earlier than T, and leaves the target
\* time T + dt2.
C7_Pre(t) ==
    /\ IsSome(last)
    /\ Unwrap(last).ahead
    /\ th[t].pc = "notify"
    /\ th[t].l = Unwrap(last).n /\ th[t].h = Unwrap(last).n
    /\ IsSome(th[t].head_start)
C7_SetThenPass ==
    \A t \in Threads :
        C7_Pre(t) =>
            /\ th[t].res = Ok
            /\ clock >= Unwrap(Unwrap(last).t)
            /\ earliest_next = Some(Unwrap(Unwrap(last).t) + Unwrap(th[t].head_start))

\* C7 (amended): ... and leaves the target time max(now, T) + dt2, where now is
\* the time the call read while updating the state; that is T + dt2 when
\* now <= T.
C7_SetThenPassLate ==
    \A t \in Threads :
        C7_Pre(t) =>
            /\ th[t].res = Ok
            /\ clock >= Unwrap(Unwrap(last).t)
            /\ earliest_next =
                  Some(Max(th[t].now, Unwrap(Unwrap(last).t)) + Unwrap(th[t].head_start))
            /\ th[t].now <= Unwrap(Unwrap(last).t) =>
                  earliest_next = Some(Unwrap(Unwrap(last).t) + Unwrap(th[t].head_start))

\* C7 witness: the call slept until T and is about to return
C7_Witness ==
    \E t \in Threads :
        /\ C7_Pre(t)
        /\ th[t].dur > 0
        /\ clock = Unwrap(Unwrap(last).t)

\* C9: when reset was called with no call in flight and point(0, None) is
\* the next call, reset has stored (0, None), and the call never blocks on the
\* Condvar, never sleeps, is checked Ok and leaves the state (1, None).
C9_Pre(t) ==
    /\ IsSome(last)
    /\ Unwrap(last).by = "reset"
    /\ th[t].pc # "idle"
    /\ th[t].l = 0 /\ th[t].h = 0
    /\ th[t].head_start = None
C9_ResetThenPass ==
    /\ (IsSome(last) /\ Unwrap(last).by = "reset") =>
            (Unwrap(last).n = 0 /\ Unwrap(last).t = None)
    /\ \A t \in Threads :
        C9_Pre(t) =>
            /\ ~th[t].parked /\ t \notin cv
            /\ th[t].pc \notin {"sleep", "panicked"}
            /\ After(t) => (th[t].res = Ok /\ state = <<1, None>>)

\* C9 witness: the call is about to return, after a reset that followed an
\* earlier call
C9_Witness ==
    \E t \in Threads :
        /\ C9_Pre(t)
        /\ th[t].pc = "notify"
        /\ th[t].calls > 1

\* C6: when a call that updated the state at time `now` supplied the
\* head_start dt, and no set or reset came in between, the next call that
\* updates the state (`due` is the now + dt it found in `owed`) is ready to
\* return only at a time >= now + dt, and is not ready before it has slept
\* when it read an earlier time.
C6_HeadStart ==
    \A t \in Threads :
        IsSome(th[t].due) =>
            /\ th[t].pc = "notify" => clock >= Unwrap(th[t].due)
            /\ (After(t) /\ th[t].now < Unwrap(th[t].due)) =>
                    /\ IsSome(th[t].target_time_this)
                    /\ Unwrap(th[t].target_time_this) >= Unwrap(th[t].due)
                    /\ th[t].pc = "sleep" => th[t].wake >= Unwrap(th[t].due)

\* C6 witness: a call that itself supplied a head_start has slept out the
\* head start of the call before it and is about to return
C6_Witness ==
    \E t \in Threads :
        /\ nsets = 0
        /\ IsSome(th[t].due)
        /\ IsSome(th[t].head_start)
        /\ th[t].pc = "notify"
        /\ th[t].dur > 0

\* C8 (as claimed): a call that supplies a head_start never sleeps.
C8_NoSleep ==
    \A t \in Threads : IsSome(th[t].head_start) => th[t].pc # "sleep"

\* C8 (amended): a call that supplies a head_start dt is never delayed by dt.
\* It sleeps exactly when the target time t it found is still ahead
\* (now < t), and then for t - now; it stores max(now, t) + dt, or now + dt
\* when it found no target time.
C8_DelayDeferred ==
    \A t \in Threads :
        LET c == th[t]
            old == c.target_time_this
            dt == Unwrap(c.head_start)
            ahead == IsSome(old) /\ c.now < Unwrap(old)
        IN  (IsSome(c.head_start) /\ After(t)) =>
                /\ c.pc = "drop" =>
                      earliest_next = IF IsSome(old)
                                      THEN Some(Max(c.now, Unwrap(old)) + dt)
                                      ELSE Some(c.now + dt)
                /\ c.pc = "sleep" => ahead
                /\ c.pc = "notify" => (c.dur > 0 <=> ahead)
                /\ c.dur > 0 => c.dur = Unwrap(old) - c.now

\* C8 witness: a call with a head_start sleeps for a target time that is ahead
C8_Witness ==
    \E t \in Threads :
        /\ IsSome(th[t].head_start)
        /\ th[t].pc = "sleep"
        /\ earliest_next = Some(Unwrap(th[t].target_time_this) + Unwrap(th[t].head_start))

\* C10: in a step that is no set or reset the number never decreases, and a
\* call checked Ok adds exactly 1 to it, whatever its window.
C10_Step ==
    (nsets' = nsets) =>
        /\ current' >= current
        /\ \A t \in Threads :
              (Waiting(t) /\ th'[t].pc = "drop" /\ th'[t].res = Ok) =>
                  current' = current + 1
C10_Monotonic == [][C10_Step]_vars

\* C10 witness: a call with a window l < h was checked Ok after a set
C10_Witness ==
    \E t \in Threads :
        /\ th[t].pc = "drop" /\ th[t].res = Ok
        /\ th[t].l < th[t].h
        /\ nsets > 0
        /\ current > th[t].l + 1

\* C11 (as claimed): no call ever runs the unreachable! of line 154, whatever
\* the other threads did to the Mutex.
C11_NeverBeforeSchedule ==
    \A t \in Threads : th[t].res # Panic

\* C13 (as claimed): no call panics between taking and dropping the Mutex, so
\* the Mutex is never poisoned.
C13_NeverPoisoned ==
    /\ ~poisoned
    /\ \A t \in Threads : th[t].pc # "panicked"

\* C12: the step in which a call checks and updates the state (c is the number
\* it finds) gives Ok exactly when l <= c <= h and Err(c) exactly when c > h,
\* so point(n) gets Ok only when c = n; and the result stays what it is until
\* the call returns it.
C12_Step ==
    \A t \in Threads :
        LET c == current
            res == th'[t].res
        IN  /\ (Waiting(t) /\ th'[t].pc = "drop") =>
                   /\ res = Ok <=> (th[t].l <= c /\ c <= th[t].h)
                   /\ res = Err(c) <=> c > th[t].h
                   /\ res.tag = "Err" => res.n = c
                   /\ (res = Ok /\ th[t].l = th[t].h) => c = th[t].l
            /\ (After(t) /\ th'[t].pc # "idle") => res = th[t].res
C12_Result == [][C12_Step]_vars

\* C12 witness: a call found a number above its window and holds Err of that
\* number, while the number stored is already one more
C12_Witness ==
    \E t \in Threads :
        /\ th[t].pc = "drop"
        /\ th[t].res.tag = "Err"
        /\ th[t].res.n > th[t].h
        /\ th[t].l < th[t].h
        /\ current = th[t].res.n + 1

\* C14: no thread holds the Mutex while it is blocked on the Condvar or while
\* it sleeps; a sleeping call has stored its update and released the Mutex,
\* so the Mutex is free or held by another thread.
C14_LockFree ==
    \A t \in Threads :
        /\ (t \in cv \/ th[t].pc \in {"sleep", "notify"}) => holder # t
        /\ holder = t => th[t].pc = "drop"

\* C14 witness: while one call sleeps, another thread has taken the Mutex and
\* checked the number the sleeper advanced
C14_Witness ==
    \E t, u \in Threads :
        /\ th[t].pc = "sleep" /\ clock < th[t].wake
        /\ th[t].res = Ok
        /\ holder = u /\ u # t
        /\ th[u].pc = "drop" /\ th[u].res = Ok
        /\ th[u].l > th[t].h

\* C15: the step in which a call updates the state, finding the target time p
\* and reading the clock once (now), stores max(now, t) + dt for p = Some(t)
\* and head_start Some(dt); t for Some(t), None, now < t; None for Some(t),
\* None, now >= t; now + dt for None, Some(dt); None for None, None.  A call
\* without head_start sleeps exactly when now < t, and not short of t.
C15_Step ==
    \A c \in Threads :
        LET p == earliest_next
            h == th[c].head_start
            now == clock
        IN  (Waiting(c) /\ th'[c].pc = "drop") =>
                /\ th'[c].now = now
                /\ th'[c].target_time_this = p
                /\ earliest_next' =
                      IF IsSome(p) /\ IsSome(h) THEN Some(Max(now, Unwrap(p)) + Unwrap(h))
                      ELSE IF IsSome(p) /\ now < Unwrap(p) THEN p
                      ELSE IF IsSome(p) THEN None
                      ELSE IF IsSome(h) THEN Some(now + Unwrap(h))
                      ELSE None
C15_Sleep ==
    \A c \in Threads :
        LET p == th[c].target_time_this
            ahead == IsSome(p) /\ th[c].now < Unwrap(p)
        IN  th[c].head_start = None =>
                /\ th[c].pc = "sleep" => (ahead /\ th[c].wake >= Unwrap(p))
                /\ th[c].pc = "notify" =>
                      /\ th[c].dur > 0 <=> ahead
                      /\ th[c].dur > 0 => clock >= Unwrap(p)
C15_DelayMerge == [][C15_Step]_vars /\ []C15_Sleep

\* C15 witness: a call without head_start found an expired target time and
\* cleared it
C15_Witness ==
    \E c \in Threads :
        /\ th[c].pc = "drop"
        /\ th[c].head_start = None
        /\ IsSome(th[c].target_time_this)
        /\ th[c].now >= Unwrap(th[c].target_time_this)
        /\ earliest_next = None

\* C16 (as claimed): when a call without head_start found a target time t
\* still ahead (now < t) and has slept, the target time stored is None.
C16_Cleared ==
    \A c \in Threads :
        (/\ th[c].pc = "notify"
         /\ th[c].head_start = None
         /\ IsSome(th[c].target_time_this)
         /\ th[c].now < Unwrap(th[c].target_time_this)) => earliest_next = None

\* C16 (amended): with the target time e = Some(t) installed and only calls
\* without head_start, a call that reads now < t sleeps and is not ready to
\* return before t, but leaves e stored; e is replaced only by None, and only
\* in the update of a call that reads the clock at t or later.
C16_Step ==
    (IsSome(scen.e) /\ earliest_next = scen.e /\ earliest_next' # earliest_next) =>
        /\ earliest_next' = None
        /\ clock >= Unwrap(scen.e)
        /\ \E c \in Threads : Waiting(c) /\ th'[c].pc = "drop" /\ th'[c].now = clock
C16_Honoured ==
    \A c \in Threads :
        (IsSome(scen.e) /\ After(c) /\ th[c].now < Unwrap(scen.e)) =>
            /\ th[c].target_time_this = scen.e
            /\ th[c].pc = "drop" => earliest_next = scen.e
            /\ th[c].pc = "notify" => (th[c].dur > 0 /\ clock >= Unwrap(scen.e))
C16_KeptUntilExpired == [][C16_Step]_vars /\ []C16_Honoured

\* C16 witness: one call has slept until t and is about to return with t
\* still stored, while a second call sleeps for the same t
C16_Witness ==
    \E c, d \in Threads :
        /\ IsSome(scen.e)
        /\ th[c].pc = "notify" /\ th[c].dur > 0
        /\ earliest_next = scen.e
        /\ th[d].pc = "sleep" /\ th[d].target_time_this = scen.e

\* C17: a set or reset changes the tuple and nothing else: no thread leaves
\* the wait set, moves or changes its locals, and the Mutex is left as it
\* was.  A thread leaves the wait set only in the notify_all of a returning
\* call or by a spurious wakeup, also when a set has made the number reach
\* its l.
C17_Step ==
    /\ nsets' # nsets =>
          /\ state' \in Numbers \X Instants
          /\ cv' = cv /\ th' = th
          /\ holder' = holder /\ poisoned' = poisoned /\ clock' = clock
    /\ \A t \in Threads :
          (t \in cv /\ t \notin cv') =>
              \/ \E u \in Threads : th[u].pc = "notify" /\ th'[u].pc = "idle" /\ cv' = {}
              \/ cv' = cv \ {t} /\ th' = th /\ state' = state /\ nsets' = nsets
C17_SetWakesNobody == [][C17_Step]_vars

\* C17 witness: a thread is still blocked on the Condvar though a set has
\* made the number reach its l, and no call is there to notify it
C17_Witness ==
    \E t \in Threads :
        /\ t \in cv
        /\ nsets > 0
        /\ current >= th[t].l
        /\ ncalls = 1

\* C18: a call that has checked and updated the state drops the Mutex, then
\* sleeps if it has to, then notifies and returns, and nothing else: it
\* returns only in the step that empties the wait set, Ok or Err alike, that
\* step comes after the drop and after the end of the sleep, and it is the
\* only step of the call that notifies.
C18_Step ==
    \A t \in Threads :
        /\ (th[t].pc # "idle" /\ th'[t].pc = "idle") =>
                (th[t].pc = "notify" /\ cv' = {} /\ holder # t)
        /\ (th[t].pc = "drop" /\ th'[t].pc # "drop") =>
                /\ holder' # t
                /\ th'[t].pc = IF sleep_for(th[t].target_time_this, th[t].now) > 0
                                THEN "sleep" ELSE "notify"
        /\ (th[t].pc = "sleep" /\ th'[t].pc # "sleep") =>
                (th'[t].pc = "notify" /\ clock >= th[t].wake)
        /\ (th[t].pc \in {"drop", "sleep"} /\ t \notin cv /\ th'[t] # th[t]) =>
                cv' = cv
C18_NotifyLast == [][C18_Step]_vars

\* C18 witness: a call that was checked Err has slept and is about to notify
\* a thread blocked on the Condvar
C18_Witness ==
    \E t, u \in Threads :
        /\ th[t].pc = "notify"
        /\ th[t].res.tag = "Err"
        /\ th[t].dur > 0
        /\ u \in cv

\* C19: without set/reset, a thread blocked on the Condvar while the number
\* has reached its l is owed a notify_all by another call, one that has
\* updated the state and not yet returned; and under a fair scheduler every
\* call waiting for a number that has been reached returns.
C19_Owed ==
    \A t \in Threads :
        (t \in cv /\ current >= th[t].l) => \E u \in Threads \ {t} : After(u)
C19_NoLostWakeup ==
    /\ []C19_Owed
    /\ \A t \in 1 .. NThreads :
          (Waiting(t) /\ current >= th[t].l) ~> th[t].pc = "idle"

\* C19 witness: a thread is blocked on the Condvar with its number reached,
\* while the call that passed the number before sleeps out a head start
C19_Witness ==
    \E t, u \in Threads :
        /\ t \in cv
        /\ current >= th[t].l
        /\ th[u].pc = "sleep"

\* C20: without set/reset, a call is checked Ok only on a number that no
\* earlier call was checked Ok on (`passed` holds those numbers).
C20_Step ==
    \A t \in Threads :
        (nsets = 0 /\ Waiting(t) /\ th'[t].pc = "drop" /\ th'[t].res = Ok) =>
            /\ current \notin passed
            /\ passed' = passed \cup {current}
C20_PassedOnce == [][C20_Step]_vars

\* C20 witness: two calls with the same window were checked Ok, the second
\* on the number after the first one's
C20_Witness ==
    \E t, u \in Threads :
        /\ t # u
        /\ th[t].pc = "notify" /\ th[t].res = Ok
        /\ th[u].pc = "drop" /\ th[u].res = Ok
        /\ th[t].l = th[u].l /\ th[t].h = th[u].h
        /\ passed = {th[t].l, th[t].l + 1}

====
